---- MODULE Spec2Model ----
(***************************************************************************)
(* DeepHash (deepdiff/contenthash.py): the content hash of a value graph.  *)
(*                                                                         *)
(* One behaviour is two top-level DeepHash calls made one after the other  *)
(* under one configuration: call 1 on rootA, call 2 on rootB.  The         *)
(* recursion of _hash / _prep_dict / _prep_iterable is an explicit stack   *)
(* of frames, one frame per _hash call on a composite value.               *)
(*                                                                         *)
(* Text is a sequence of one-character strings, ordered as Python orders   *)
(* str (by code point, a proper prefix first).                             *)
(***************************************************************************)
EXTENDS Integers, Sequences, FiniteSets, TLC

(***************************************************************************)
(* Bounds of the model.                                                    *)
(***************************************************************************)
\* Depth of the frame stack at which the interpreter raises RecursionError.
\* Every acyclic path of the input graphs below is shorter.
RecursionLimit == 6
\* id()-derived hashes the two sentinel instances of one call may have.
MaxAddr == 2
\* Depth to which two value graphs are unfolded when compared by content.
UnfoldDepth == 4

(***************************************************************************)
(* Text.                                                                   *)
(***************************************************************************)
\* The characters that occur, in code-point order.
Alphabet ==
    << " ", ",", "-", "0", "1", "2", "3", "4", "5", "6", "7", "8", "9",
       ":", ";", "E", "N", "O", "S", "U",
       "a", "b", "c", "d", "e", "f", "g", "h", "i", "j", "k", "l", "m",
       "n", "o", "p", "q", "r", "s", "t", "u", "v", "w", "x", "y", "z",
       "{", "|", "}" >>

Ord(c) == CHOOSE i \in 1..Len(Alphabet) : Alphabet[i] = c

\* a < b on str: decided at the first position where they differ, or by
\* their lengths when one is a prefix of the other
TextLess(a, b) ==
    LET n    == IF Len(a) < Len(b) THEN Len(a) ELSE Len(b)
        diff == {i \in 1..n : a[i] # b[i]}
    IN  IF diff = {} THEN Len(a) < Len(b)
        ELSE LET i == CHOOSE k \in diff : \A j \in diff : k <= j
             IN  Ord(a[i]) < Ord(b[i])

RECURSIVE Insert(_, _)
Insert(x, s) ==
    IF s = <<>> THEN <<x>>
    ELSE IF TextLess(Head(s), x) THEN <<Head(s)>> \o Insert(x, Tail(s))
    ELSE <<x>> \o s

RECURSIVE InsertionSort(_)
InsertionSort(s) ==
    IF s = <<>> THEN <<>> ELSE Insert(Head(s), InsertionSort(Tail(s)))

\* A list of str left in the order it was built.
Unsorted(s) == s

\* sorted(...) / list.sort() on a list of str
Sorted(s) == InsertionSort(s)

\* sep.join(s)
RECURSIVE Join(_, _)
Join(sep, s) ==
    IF s = <<>> THEN <<>>
    ELSE IF Len(s) = 1 THEN s[1]
    ELSE s[1] \o sep \o Join(sep, Tail(s))

Digit(n) == <<SubSeq(Alphabet, 4, 13)[n + 1]>>

\* str(n) of a non-negative int
RECURSIVE IntToText(_)
IntToText(n) ==
    IF n < 10 THEN Digit(n) ELSE IntToText(n \div 10) \o Digit(n % 10)

T_NONE        == <<"N", "O", "N", "E">>
T_Error       == <<"E", "r", "r", "o", "r", ":", " ">>
T_Skipped     == <<"S", "k", "i", "p", "p", "e", "d">>
T_Unprocessed == <<"U", "n", "p", "r", "o", "c", "e", "s", "s", "e", "d">>
T_str         == <<"s", "t", "r">>
T_bytes       == <<"b", "y", "t", "e", "s">>
T_int         == <<"i", "n", "t">>
T_list        == <<"l", "i", "s", "t">>
T_tuple       == <<"t", "u", "p", "l", "e">>
T_set         == <<"s", "e", "t">>
T_dict        == <<"d", "i", "c", "t">>
T_obj         == <<"o", "b", "j">>
T_nt          == <<"n", "t">>
T_seed        == <<"s", "e", "e", "d">>

\* type(x).__name__ / x.__class__.__name__
ClassName(cls) ==
    CASE cls = "str"         -> T_str
      [] cls = "bytes"       -> T_bytes
      [] cls = "int"         -> T_int
      [] cls = "list"        -> T_list
      [] cls = "tuple"       -> T_tuple
      [] cls = "set"         -> T_set
      [] cls = "dict"        -> T_dict
      [] cls = "Skipped"     -> T_Skipped
      [] cls = "Unprocessed" -> T_Unprocessed

(***************************************************************************)
(* Results: what _hash returns and stores.  t is the Python class of the   *)
(* result: "str" (a canonical string), "int" (a digest, v its decimal      *)
(* text), or one of the sentinel instances of the call.                    *)
(***************************************************************************)
StrR(text)   == [t |-> "str", v |-> text]
IntR(digits) == [t |-> "int", v |-> digits]
SkippedR     == [t |-> "Skipped", v |-> <<>>]
UnprocessedR == [t |-> "Unprocessed", v |-> <<>>]
NotHashedR   == [t |-> "NotHashed", v |-> <<>>]
\* no entry under that key
Absent       == [t |-> "absent", v |-> <<>>]
\* an exception leaving the callee
RaiseR(name) == [t |-> "raise", v |-> name]

IsSentinel(r) == r.t \in {"Skipped", "Unprocessed", "NotHashed"}

\* str(r) / "{}".format(r): OtherTypes.__repr__ for a sentinel
ReprText(r) ==
    IF IsSentinel(r) THEN T_Error \o ClassName(r.t) ELSE r.v

\* prepare_string_for_hashing(obj, include_string_type_changes).
\* cls: obj's class; r: obj as a result (for bytes, v is the decoded text);
\* decodable: whether obj.decode('utf-8') succeeds.
PrepareStringForHashing(cls, r, decodable, incl) ==
    IF cls = "bytes" /\ ~decodable THEN RaiseR("UnicodeDecodeError")
    ELSE IF incl THEN StrR(ClassName(cls) \o <<":">> \o ReprText(r))
    ELSE r

\* The pluggable hasher, as an injective function of its str argument whose
\* int result is kept as its decimal text: "1" then two digits per character.
Codes(text) ==
    [i \in 1..(2 * Len(text)) |->
        IntToText(Ord(text[(i + 1) \div 2]) + 9)[2 - (i % 2)]]

\* hash(sentinel): object.__hash__, derived from the instance's address.
IdentityHash(r, a) ==
    IntR(IntToText(IF r.t = "Unprocessed" THEN 2 * a ELSE 2 * a + 1))

\* self.hasher(x), a the address of the call's sentinel instances
Hasher(x, a) ==
    IF IsSentinel(x) THEN IdentityHash(x, a) ELSE IntR(<<"1">> \o Codes(x.v))

(***************************************************************************)
(* Values.  A value graph is a sequence of nodes; a node's identity, id(), *)
(* is its index.                                                           *)
(*   cls      the class: NoneType, str, bytes, int, list, tuple, set,      *)
(*            dict, object                                                 *)
(*   view     for object: "__dict__", "__slots__" or "none" (neither);     *)
(*            for tuple: "_asdict" (a namedtuple) or "plain"               *)
(*   text     the characters of a str or bytes                             *)
(*   ok       for bytes: whether it decodes as UTF-8                       *)
(*   num      the value of an int                                          *)
(*   items    the elements of a list, tuple or set (a set's in no order)   *)
(*   entries  <<key, value>> of a dict, or <<name, value>> of the fields   *)
(***************************************************************************)
Node(cls, view, text, ok, num, items, entries) ==
    [cls |-> cls, view |-> view, text |-> text, ok |-> ok, num |-> num,
     items |-> items, entries |-> entries]

NoneV          == Node("NoneType", "", <<>>, TRUE, 0, <<>>, <<>>)
StrV(t)        == Node("str", "", t, TRUE, 0, <<>>, <<>>)
BytesV(t, ok)  == Node("bytes", "", t, ok, 0, <<>>, <<>>)
IntV(n)        == Node("int", "", <<>>, TRUE, n, <<>>, <<>>)
ListV(xs)      == Node("list", "", <<>>, TRUE, 0, xs, <<>>)
TupleV(xs)     == Node("tuple", "plain", <<>>, TRUE, 0, xs, <<>>)
SetV(xs)       == Node("set", "", <<>>, TRUE, 0, xs, <<>>)
DictV(es)      == Node("dict", "", <<>>, TRUE, 0, <<>>, es)
ObjV(es)       == Node("object", "__dict__", <<>>, TRUE, 0, <<>>, es)
SlotsV(es)     == Node("object", "__slots__", <<>>, TRUE, 0, <<>>, es)
NamedTupleV(es) == Node("tuple", "_asdict", <<>>, TRUE, 0, <<>>, es)
OpaqueV        == Node("object", "none", <<>>, TRUE, 0, <<>>, <<>>)

\* The inputs: a graph, the roots of the two calls, and the identities a
\* caller may seed through `hashes`.
Input(heap, a, b, seedable) ==
    [heap |-> heap, rootA |-> a, rootB |-> b, seedable |-> seedable]

\* [x, x] with x shared, against [y, z] with y, z equal copies of x
ShareVsCopy ==
    Input(<< ListV(<<3, 3>>), ListV(<<4, 5>>), ListV(<<6>>), ListV(<<6>>),
             ListV(<<6>>), IntV(1) >>, 1, 2, {3, 6})

\* d = {"a": L1, "b": L2}, L1 = [L2], L2 = [L1, 1]
MutualDict ==
    Input(<< DictV(<< <<4, 2>>, <<5, 3>> >>), ListV(<<3>>), ListV(<<2, 6>>),
             StrV(<<"a">>), StrV(<<"b">>), IntV(1) >>, 1, 1, {})

\* o.f = s, s = {o}: a cycle through a set element
SetCycle ==
    Input(<< ObjV(<< <<3, 2>> >>), SetV(<<1>>), StrV(<<"f">>) >>, 1, 2, {})

\* d = {k: 1}, k.d = d: a cycle through a mapping key
KeyCycle ==
    Input(<< DictV(<< <<2, 4>> >>), ObjV(<< <<3, 1>> >>), StrV(<<"d">>),
             IntV(1) >>, 1, 2, {})

\* a = [a, 1] against b = [c, 1], c = [b, 1]
SelfList ==
    Input(<< ListV(<<1, 2>>), IntV(1), ListV(<<4, 2>>), ListV(<<3, 2>>) >>,
          1, 3, {})

\* [o, 1] and [p, 1], o and p objects that expose no field view
OpaqueInList ==
    Input(<< ListV(<<2, 3>>), OpaqueV, IntV(1), ListV(<<5, 3>>), OpaqueV >>,
          1, 4, {3})

\* [b"<undecodable>", 1] and [b"a", "a", None]
BytesInList ==
    Input(<< ListV(<<2, 3>>), BytesV(<<"x">>, FALSE), IntV(1),
             ListV(<<5, 6, 7>>), BytesV(<<"a">>, TRUE), StrV(<<"a">>),
             NoneV >>, 1, 4, {})

\* [{1}, 1] against [1]
SetInList ==
    Input(<< ListV(<<2, 3>>), SetV(<<3>>), IntV(1), ListV(<<3>>) >>,
          1, 4, {})

\* {"a": {1}, "b": 1} against {"b": 1}
SetInDict ==
    Input(<< DictV(<< <<4, 2>>, <<5, 3>> >>), SetV(<<3>>), IntV(1),
             StrV(<<"a">>), StrV(<<"b">>), DictV(<< <<5, 3>> >>) >>, 1, 6, {})

\* [[1, 1, 2], [1, 2], [2, 1]] and ((1, 2), (2, 1), (1, 2, 2))
Repetition ==
    Input(<< ListV(<<2, 3, 4>>), ListV(<<5, 5, 6>>), ListV(<<5, 6>>),
             ListV(<<6, 5>>), IntV(1), IntV(2),
             TupleV(<<8, 9, 10>>), TupleV(<<5, 6>>), TupleV(<<6, 5>>),
             TupleV(<<5, 6, 6>>) >>, 1, 7, {})

\* [["a|1,b"], ["a", "b"]] and [["a,b"], ["b", "a"]]
Separators ==
    Input(<< ListV(<<2, 3>>), ListV(<<4>>), ListV(<<5, 6>>),
             StrV(<<"a", "|", "1", ",", "b">>), StrV(<<"a">>), StrV(<<"b">>),
             ListV(<<8, 9>>), ListV(<<10>>), ListV(<<6, 5>>),
             StrV(<<"a", ",", "b">>) >>, 1, 7, {})

\* {1: 2, "a": "b"} and [nt(x=1), slots(x=1), None, 12]
Records ==
    Input(<< DictV(<< <<2, 3>>, <<4, 5>> >>), IntV(1), IntV(2),
             StrV(<<"a">>), StrV(<<"b">>),
             ListV(<<7, 8, 9, 11>>), NamedTupleV(<< <<10, 2>> >>),
             SlotsV(<< <<10, 2>> >>), NoneV, StrV(<<"x">>), IntV(12) >>,
          1, 6, {3})

\* {"a", "b", 1} and a second set of the same elements
SetOrder ==
    Input(<< SetV(<<2, 3, 4>>), StrV(<<"a">>), StrV(<<"b">>), IntV(1),
             SetV(<<4, 3, 2>>) >>, 1, 5, {})

Inputs ==
    << ShareVsCopy, MutualDict, SetCycle, KeyCycle, SelfList, OpaqueInList,
       BytesInList, SetInList, SetInDict, Repetition, Separators, Records,
       SetOrder >>

\* The configurations: __init__'s parameters.
Configs ==
    [ ignore_repetition           : BOOLEAN,
      constant_size               : BOOLEAN,
      include_string_type_changes : BOOLEAN,
      exclude_types               : {{}, {"set"}} ]

(***************************************************************************)
(* State.                                                                  *)
(***************************************************************************)
VARIABLES
    inp,          \* index of the input in Inputs
    cfg,          \* the configuration of both calls
    seed,         \* the identity seeded through `hashes`, 0 for none
    callNo,       \* 1 or 2: which top-level call is running
    addr,         \* address of this call's sentinel instances
    pc,           \* "init", "run", "done" or "raised"
    error,        \* the exception that left the call, "" for none
    stack,        \* the open _hash calls on composite values
    table,        \* self: identity -> result, Absent where there is no key
    unprocessed,  \* self['unprocessed']
    canon,        \* history: identity -> result before the Hash Finalizer
    elems,        \* history: identity -> the counts _prep_iterable built
    commits,      \* history: identity -> number of times self[id] was set
    entered,      \* history: identity -> number of times _hash went past
                  \*          its lookup and into the dispatch
    ret,          \* history: the last _hash call that returned
    prev          \* the outcome of call 1, kept for call 2

vars ==
    << inp, cfg, seed, callNo, addr, pc, error, stack, table, unprocessed,
       canon, elems, commits, entered, ret, prev >>

Heap  == Inputs[inp].heap
Ids   == 1..Len(Heap)
Root  == IF callNo = 1 THEN Inputs[inp].rootA ELSE Inputs[inp].rootB

Range(s) == {s[i] : i \in 1..Len(s)}

\* Every order in which the members of an unordered collection can come.
Orders(s) ==
    LET n  == Len(s)
        ps == {p \in [1..n -> 1..n] : \A i, j \in 1..n : p[i] = p[j] => i = j}
    IN  {[i \in 1..n |-> s[p[i]]] : p \in ps}

(***************************************************************************)
(* The leaves of _hash.                                                    *)
(***************************************************************************)
\* _skip_this(obj)
SkipThis(x) == Heap[x].cls \in cfg.exclude_types

\* isinstance(obj, strings)
IsString(x) == Heap[x].cls \in {"str", "bytes"}

\* _prep_number(obj) for an int
PrepNumber(x) ==
    StrR(ClassName(Heap[x].cls) \o <<":">> \o IntToText(Heap[x].num))

\* _prep_obj finds neither __dict__ nor __slots__
NoFieldView(x) == Heap[x].cls = "object" /\ Heap[x].view = "none"

\* The values _hash gives a result without recursing.
IsLeaf(x) ==
    \/ SkipThis(x)
    \/ Heap[x].cls \in {"NoneType", "str", "bytes", "int"}
    \/ NoFieldView(x)

\* The branch of _hash's dispatch taken for a leaf: the result before the
\* Hash Finalizer.
LeafResult(x) ==
    IF SkipThis(x) THEN SkippedR
    ELSE IF Heap[x].cls = "NoneType" THEN StrR(T_NONE)
    ELSE IF IsString(x)
        THEN PrepareStringForHashing(Heap[x].cls, StrR(Heap[x].text),
                 Heap[x].ok, cfg.include_string_type_changes)
    ELSE IF Heap[x].cls = "int" THEN PrepNumber(x)
    ELSE UnprocessedR

\* The end of _hash: under constant_size the result goes through the hasher.
Finalize(x, result) ==
    IF result.t = "raise" \/ result = NotHashedR THEN result
    ELSE IF cfg.constant_size
        THEN Hasher(IF IsString(x) THEN result
                    ELSE PrepareStringForHashing(result.t, result, TRUE,
                             cfg.include_string_type_changes),
                    addr)
    ELSE result

(***************************************************************************)
(* Frames.  A frame is one _hash call on a composite value, inside         *)
(* _prep_iterable (mode "iter") or _prep_dict (mode "dict").               *)
(*   obj      the value                                                    *)
(*   parents  parents_ids as passed to _hash                               *)
(*   inner    parents_ids as passed on to _prep_iterable / _prep_dict      *)
(*   todo     the <<key, item>> still to visit, in iteration order         *)
(*            (key is 0 in mode "iter")                                    *)
(*   phase    "key": _hash(key) is next; "item": the item is next          *)
(*   keyHash  key_hash of the current key                                  *)
(*   counts   mode "iter": the defaultdict, in insertion order             *)
(*   pairs    mode "dict": the list of "key_hash:hashed"                   *)
(***************************************************************************)
IsDictLike(x) ==
    \/ Heap[x].cls = "dict"
    \/ Heap[x].cls = "object"
    \/ Heap[x].cls = "tuple" /\ Heap[x].view = "_asdict"

\* _prep_set passes _prep_iterable no parents_ids, so the default applies
InnerParents(x, parents) ==
    IF Heap[x].cls = "set" THEN {} ELSE parents

\* The orders in which the body's for loop can visit the value's members:
\* a list or tuple in sequence, set(obj.keys()) and a set in any order.
VisitOrders(x) ==
    IF IsDictLike(x) THEN Orders(Heap[x].entries)
    ELSE LET its == [i \in 1..Len(Heap[x].items) |-> <<0, Heap[x].items[i]>>]
         IN  IF Heap[x].cls = "set" THEN Orders(its) ELSE {its}

NewFrame(x, parents, order) ==
    [obj |-> x, parents |-> parents, inner |-> InnerParents(x, parents),
     mode |-> IF IsDictLike(x) THEN "dict" ELSE "iter",
     todo |-> order, phase |-> IF IsDictLike(x) THEN "key" ELSE "item",
     keyHash |-> Absent, counts |-> <<>>, pairs |-> <<>>]

\* _add_to_frozen_set(parents_ids, item_id)
AddToFrozenSet(parents, item) == parents \cup {item}

\* result[hashed] += 1
AddCount(counts, r) ==
    IF \E i \in 1..Len(counts) : counts[i].k = r
    THEN [i \in 1..Len(counts) |->
             IF counts[i].k = r THEN [k |-> r, n |-> counts[i].n + 1]
             ELSE counts[i]]
    ELSE Append(counts, [k |-> r, n |-> 1])

\* The frame after the call it was waiting for returned r.
Accept(f, r) ==
    IF f.mode = "iter"
        THEN [f EXCEPT !.counts = AddCount(f.counts, r), !.todo = Tail(f.todo)]
    ELSE IF f.phase = "key"
        THEN [f EXCEPT !.keyHash = r, !.phase = "item"]
    ELSE [f EXCEPT !.pairs = Append(f.pairs,
                                 ReprText(f.keyHash) \o <<":">> \o ReprText(r)),
                   !.todo = Tail(f.todo), !.phase = "key",
                   !.keyHash = Absent]

\* The stack after the callee returned r to the frame on top.
Deliver(st, r) ==
    IF st = <<>> THEN st ELSE [st EXCEPT ![Len(st)] = Accept(st[Len(st)], r)]

Top == stack[Len(stack)]

\* The member the frame on top looks at next.
Member == Head(Top.todo)[2]

\* `continue`: an excluded element of an iterable, or an element or item
\* whose identity is in parents_ids.
Continues(f) ==
    /\ f.todo # <<>>
    /\ f.phase = "item"
    /\ \/ f.mode = "iter" /\ SkipThis(Head(f.todo)[2])
       \/ f.inner # {} /\ Head(f.todo)[2] \in f.inner

\* Whether a _hash call is next, and which: the root call of __init__, or the
\* call the frame on top makes.
CallNext ==
    \/ pc = "init"
    \/ pc = "run" /\ Top.todo # <<>> /\ ~Continues(Top)

CallObj ==
    IF pc = "init" THEN Root
    ELSE IF Top.phase = "key" THEN Head(Top.todo)[1] ELSE Member

CallParents ==
    IF pc = "init" THEN {Root}
    ELSE IF Top.phase = "key" THEN {}
    ELSE AddToFrozenSet(Top.inner, Member)

(***************************************************************************)
(* The canonical strings of the composites.                                *)
(***************************************************************************)
\* Every distinct result once, whatever ignore_repetition says.
EncodeKeysOnly(counts) ==
    [i \in 1..Len(counts) |-> ReprText(counts[i].k)]

\* _prep_iterable after its loop: the keys alone under ignore_repetition,
\* else "key|count" for every key.
EncodeCounts(counts) ==
    IF cfg.ignore_repetition
    THEN [i \in 1..Len(counts) |-> ReprText(counts[i].k)]
    ELSE [i \in 1..Len(counts) |->
             ReprText(counts[i].k) \o <<"|">> \o IntToText(counts[i].n)]

\* _prep_iterable: sorted, joined with ",", after the type's name
PrepIterable(f) ==
    ClassName(Heap[f.obj].cls) \o <<":">>
        \o Join(<<",">>, Sorted(EncodeCounts(f.counts)))

\* _prep_set
PrepSet(f) == T_set \o <<":">> \o PrepIterable(f)

\* _prep_dict: sorted, joined with ";", in the dict:{...} envelope
PrepDict(f) ==
    T_dict \o <<":", "{">> \o Join(<<";">>, Sorted(f.pairs)) \o <<"}">>

\* _prep_obj with a field view: "nt" or "obj" before the fields' mapping
PrepObj(f) ==
    (IF Heap[f.obj].cls = "tuple" THEN T_nt ELSE T_obj) \o PrepDict(f)

\* The branch of _hash's dispatch a finished frame returns through.
FrameResult(f) ==
    StrR(IF Heap[f.obj].cls = "dict" THEN PrepDict(f)
         ELSE IF f.mode = "dict" THEN PrepObj(f)
         ELSE IF Heap[f.obj].cls = "set" THEN PrepSet(f)
         ELSE PrepIterable(f))

(***************************************************************************)
(* Initial state: __init__ up to its call of _hash.                        *)
(***************************************************************************)
\* self.update(hashes)
SeededTable ==
    [i \in Ids |-> IF i = seed THEN StrR(T_seed) ELSE Absent]

NoReturn == [obj |-> 0, val |-> Absent, hit |-> FALSE]

NoPrev ==
    [pc |-> "none", error |-> "", addr |-> 0, table |-> <<>>,
     canon |-> <<>>, elems |-> <<>>, unprocessed |-> <<>>]

Init ==
    /\ inp \in 1..Len(Inputs)
    /\ cfg \in Configs
    /\ seed \in {0} \cup Inputs[inp].seedable
    /\ callNo = 1
    /\ addr \in 1..MaxAddr
    /\ pc = "init"
    /\ error = ""
    /\ stack = <<>>
    /\ table = SeededTable
    /\ unprocessed = <<>>
    /\ canon = [i \in Ids |-> Absent]
    /\ elems = [i \in Ids |-> <<>>]
    /\ commits = [i \in Ids |-> 0]
    /\ entered = [i \in Ids |-> 0]
    /\ ret = NoReturn
    /\ prev = NoPrev

(***************************************************************************)
(* Actions.                                                                *)
(***************************************************************************)
\* The lookup that opens _hash, skipped: nothing is ever found stored.
InTableNever(x) == FALSE

\* `obj_id in self`
InTable(x) == table[x] # Absent

\* pc once the callee has returned: __init__ ends when the root call does.
AfterReturn(st) == IF st = <<>> THEN "done" ELSE "run"

\* _hash finds id(obj) in self and returns what is stored.
MemoHit ==
    /\ CallNext
    /\ InTable(CallObj)
    /\ stack' = Deliver(stack, table[CallObj])
    /\ pc' = AfterReturn(stack)
    /\ ret' = [obj |-> CallObj, val |-> table[CallObj], hit |-> TRUE]
    /\ UNCHANGED << inp, cfg, seed, callNo, addr, error, table, unprocessed,
                    canon, elems, commits, entered, prev >>

\* _hash on a leaf: dispatch, finalize, store, return.
HashLeaf ==
    /\ CallNext
    /\ ~InTable(CallObj)
    /\ IsLeaf(CallObj)
    /\ LET x   == CallObj
           raw == LeafResult(x)
           res == Finalize(x, raw)
       IN  /\ res.t # "raise"
           /\ table' = [table EXCEPT ![x] = res]
           /\ unprocessed' = IF raw = UnprocessedR
                             THEN Append(unprocessed, x) ELSE unprocessed
           /\ canon' = [canon EXCEPT ![x] = raw]
           /\ commits' = [commits EXCEPT ![x] = @ + 1]
           /\ entered' = [entered EXCEPT ![x] = @ + 1]
           /\ stack' = Deliver(stack, res)
           /\ pc' = AfterReturn(stack)
           /\ ret' = [obj |-> x, val |-> res, hit |-> FALSE]
    /\ UNCHANGED << inp, cfg, seed, callNo, addr, error, elems, prev >>

\* bytes.decode raises inside prepare_string_for_hashing; nothing catches it.
DecodeFails ==
    /\ CallNext
    /\ ~InTable(CallObj)
    /\ IsLeaf(CallObj)
    /\ Finalize(CallObj, LeafResult(CallObj)).t = "raise"
    /\ pc' = "raised"
    /\ error' = Finalize(CallObj, LeafResult(CallObj)).v
    /\ UNCHANGED << inp, cfg, seed, callNo, addr, stack, table, unprocessed,
                    canon, elems, commits, entered, ret, prev >>

\* _hash on a composite: into _prep_dict, _prep_iterable, _prep_set,
\* _prep_tuple or _prep_obj.
Descend ==
    /\ CallNext
    /\ ~InTable(CallObj)
    /\ ~IsLeaf(CallObj)
    /\ Len(stack) < RecursionLimit
    /\ \E order \in VisitOrders(CallObj) :
           stack' = Append(stack, NewFrame(CallObj, CallParents, order))
    /\ entered' = [entered EXCEPT ![CallObj] = @ + 1]
    /\ pc' = "run"
    /\ UNCHANGED << inp, cfg, seed, callNo, addr, error, table, unprocessed,
                    canon, elems, commits, ret, prev >>

\* The same call with the interpreter's stack used up.
RecursionFails ==
    /\ CallNext
    /\ ~InTable(CallObj)
    /\ ~IsLeaf(CallObj)
    /\ Len(stack) >= RecursionLimit
    /\ pc' = "raised"
    /\ error' = "RecursionError"
    /\ UNCHANGED << inp, cfg, seed, callNo, addr, stack, table, unprocessed,
                    canon, elems, commits, entered, ret, prev >>

\* `continue` in the loop of _prep_iterable or _prep_dict.
Continue ==
    /\ pc = "run"
    /\ Continues(Top)
    /\ stack' = [stack EXCEPT ![Len(stack)] =
                    [Top EXCEPT !.todo = Tail(Top.todo),
                                !.phase = IF Top.mode = "dict" THEN "key"
                                          ELSE "item",
                                !.keyHash = Absent]]
    /\ UNCHANGED << inp, cfg, seed, callNo, addr, pc, error, table,
                    unprocessed, canon, elems, commits, entered, ret,
                    prev >>

\* The loop is over: build the canonical string, finalize, store, return.
Return ==
    /\ pc = "run"
    /\ Top.todo = <<>>
    /\ LET f    == Top
           x    == f.obj
           raw  == FrameResult(f)
           res  == Finalize(x, raw)
           rest == SubSeq(stack, 1, Len(stack) - 1)
       IN  /\ table' = [table EXCEPT ![x] = res]
           /\ canon' = [canon EXCEPT ![x] = raw]
           /\ elems' = [elems EXCEPT ![x] = f.counts]
           /\ commits' = [commits EXCEPT ![x] = @ + 1]
           /\ stack' = Deliver(rest, res)
           /\ pc' = AfterReturn(rest)
           /\ ret' = [obj |-> x, val |-> res, hit |-> FALSE]
    /\ UNCHANGED << inp, cfg, seed, callNo, addr, error, unprocessed,
                    entered, prev >>

\* Call 1 is over; a second DeepHash is constructed, on rootB.
NextCall ==
    /\ callNo = 1
    /\ pc \in {"done", "raised"}
    /\ prev' = [pc |-> pc, error |-> error, addr |-> addr, table |-> table,
                canon |-> canon, elems |-> elems, unprocessed |-> unprocessed]
    /\ callNo' = 2
    /\ addr' \in 1..MaxAddr
    /\ pc' = "init"
    /\ error' = ""
    /\ stack' = <<>>
    /\ table' = SeededTable
    /\ unprocessed' = <<>>
    /\ canon' = [i \in Ids |-> Absent]
    /\ elems' = [i \in Ids |-> <<>>]
    /\ commits' = [i \in Ids |-> 0]
    /\ entered' = [i \in Ids |-> 0]
    /\ ret' = NoReturn
    /\ UNCHANGED << inp, cfg, seed >>

Next ==
    \/ MemoHit
    \/ HashLeaf
    \/ DecodeFails
    \/ Descend
    \/ RecursionFails
    \/ Continue
    \/ Return
    \/ NextCall

Spec == Init /\ [][Next]_vars

(***************************************************************************)
(* Vocabulary of the properties.                                           *)
(***************************************************************************)
RootA == Inputs[inp].rootA
RootB == Inputs[inp].rootB

\* Both top-level calls have returned normally.
BothDone == callNo = 2 /\ pc = "done" /\ prev.pc = "done"

\* The content of x to depth d, identities forgotten.
Cut == [cls |-> "...", view |-> "", text |-> <<>>, ok |-> TRUE, num |-> 0,
        kids |-> <<>>, members |-> {}]

PairOf(k, v) == [Cut EXCEPT !.cls = "pair", !.kids = <<k, v>>]

RECURSIVE Unfold(_, _)
Unfold(x, d) ==
    IF d = 0 THEN Cut
    ELSE LET n == Heap[x] IN
         [cls |-> n.cls, view |-> n.view, text |-> n.text, ok |-> n.ok,
          num |-> n.num,
          kids |-> IF n.cls = "set" THEN <<>>
                   ELSE [i \in 1..Len(n.items) |-> Unfold(n.items[i], d - 1)],
          members |->
              IF n.cls = "set"
              THEN {Unfold(e, d - 1) : e \in Range(n.items)}
              ELSE {PairOf(Unfold(e[1], d - 1), Unfold(e[2], d - 1)) :
                       e \in Range(n.entries)}]

\* Same types and same content at every position, to UnfoldDepth.
ContentEqual(x, y) == Unfold(x, UnfoldDepth) = Unfold(y, UnfoldDepth)

\* A list or plain tuple whose _prep_iterable ran to its end in this call.
HashedSequence(x) ==
    /\ Heap[x].cls \in {"list", "tuple"}
    /\ ~IsDictLike(x)
    /\ commits[x] > 0

SequencePairs ==
    {p \in Ids \X Ids :
        /\ p[1] # p[2]
        /\ HashedSequence(p[1]) /\ HashedSequence(p[2])
        /\ Heap[p[1]].cls = Heap[p[2]].cls}

\* The distinct element results of x, and each with its multiplicity.
KeySet(x)   == {elems[x][i].k : i \in 1..Len(elems[x])}
CountSet(x) == Range(elems[x])

NoSeparator(text) == \A i \in 1..Len(text) : text[i] \notin {",", "|"}

\* The element results of x and y are all digests, or all canonical strings,
\* and hold no separator of _prep_iterable.
PlainResults(x, y) ==
    \E t \in {"int", "str"} :
        \A k \in KeySet(x) \cup KeySet(y) : k.t = t /\ NoSeparator(k.v)

\* y holds the members of x less those of an excluded type.
Excluded(n) == n.cls \in cfg.exclude_types
StripsExcluded(x, y) ==
    /\ Heap[x].cls = Heap[y].cls
    /\ Heap[x].view = Heap[y].view
    /\ SelectSeq(Heap[x].items, LAMBDA e : ~Excluded(Heap[e])) = Heap[y].items
    /\ SelectSeq(Heap[x].entries, LAMBDA e : ~Excluded(Heap[e[2]]))
           = Heap[y].entries

ExcludedMembers(x) ==
    {e \in Range(Heap[x].items) : Excluded(Heap[e])}
        \cup {e[2] : e \in {f \in Range(Heap[x].entries) : Excluded(Heap[f[2]])}}

(***************************************************************************)
(* Properties.                                                             *)
(***************************************************************************)

\* C1: two content-equal value graphs with different identities and different
\* sharing get, under the same configuration, the same root result from two
\* separate top-level calls.  (Stated for calls with nothing seeded and no
\* type excluded.)
C1_ContentEqualRootsHashEqual ==
    (BothDone /\ seed = 0 /\ cfg.exclude_types = {}
       /\ RootA # RootB /\ ContentEqual(RootA, RootB))
        => prev.table[RootA] = table[RootB]

\* C2: what _prep_dict / _prep_set compute for a mapping or a set is the same
\* for every order in which its keys or elements are visited, also when its
\* values reference each other.  (Two calls on the same root, same sentinel
\* addresses: they can differ only in the visit orders.)
C2_VisitOrderIndependent ==
    (BothDone /\ RootA = RootB /\ prev.addr = addr)
        => \A x \in Ids :
               Heap[x].cls \in {"dict", "set"} => prev.canon[x] = canon[x]

\* C3: a top-level call on a finite graph terminates with a result for the
\* root, whatever cycles the graph has: the interpreter's stack never runs
\* out.
C3_Terminates == error # "RecursionError"

C5_UnprocessedEntryIsSentinel ==
    \A x \in Ids :
        (NoFieldView(x) /\ commits[x] > 0)
            => x \in Range(unprocessed) /\ table[x] = UnprocessedR

\* C6: a byte sequence that cannot be decoded never makes an error leave the
\* top-level call.
C6_DecodeFailureContained == error # "UnicodeDecodeError"

\* C7: a composite holding a sub-value of an excluded type reports it as the
\* Skipped sentinel, and its canonical string is the one of the same
\* composite without that sub-value.
C7_SkippedLeavesNoTrace ==
    (BothDone /\ seed = 0 /\ cfg.exclude_types # {}
       /\ ExcludedMembers(RootA) # {} /\ StripsExcluded(RootA, RootB))
        => /\ \A x \in ExcludedMembers(RootA) : prev.table[x] = SkippedR
           /\ prev.canon[RootA] = canon[RootB]

\* C8 as stated: under ignore_repetition two sequences of one type with the
\* same set of distinct element results get equal results; without it their
\* results are equal only when every distinct element result occurs the same
\* number of times in both.
C8_AsStated ==
    \A p \in SequencePairs :
        /\ (cfg.ignore_repetition /\ KeySet(p[1]) = KeySet(p[2]))
               => table[p[1]] = table[p[2]]
        /\ (~cfg.ignore_repetition /\ table[p[1]] = table[p[2]])
               => CountSet(p[1]) = CountSet(p[2])

\* C8 as amended: the second half holds when the element results of both
\* sequences are all digests, or all canonical strings, and none holds a
\* separator ("," or "|"); under constant_size every computed element result
\* is a digest.
C8_Repetition ==
    \A p \in SequencePairs :
        /\ (cfg.ignore_repetition /\ KeySet(p[1]) = KeySet(p[2]))
               => table[p[1]] = table[p[2]]
        /\ (~cfg.ignore_repetition /\ PlainResults(p[1], p[2])
              /\ (table[p[1]] = table[p[2]] \/ canon[p[1]] = canon[p[2]]))
               => CountSet(p[1]) = CountSet(p[2])
        /\ (cfg.constant_size /\ seed = 0)
               => \A k \in KeySet(p[1]) : k.t = "int" /\ NoSeparator(k.v)

\* C8 witness: without ignore_repetition, two sequences with the same
\* distinct element results in different multiplicities got different
\* results.
C8_Witness ==
    /\ ~cfg.ignore_repetition
    /\ cfg.constant_size
    /\ \E p \in SequencePairs :
           /\ PlainResults(p[1], p[2])
           /\ KeySet(p[1]) = KeySet(p[2])
           /\ CountSet(p[1]) # CountSet(p[2])
           /\ table[p[1]] # table[p[2]]

\* C9 as stated: without ignore_repetition, two sequences of one type with
\* the same element results in the same multiplicities, met in a different
\* order, get different canonical strings.
C9_AsStated ==
    \A p \in SequencePairs :
        (~cfg.ignore_repetition /\ CountSet(p[1]) = CountSet(p[2])
           /\ elems[p[1]] # elems[p[2]])
            => canon[p[1]] # canon[p[2]]

\* C9 as amended: they get the same canonical string; the order of the
\* elements leaves no trace.
C9_OrderLeavesNoTrace ==
    \A p \in SequencePairs :
        (~cfg.ignore_repetition /\ CountSet(p[1]) = CountSet(p[2]))
            => canon[p[1]] = canon[p[2]]

\* C9 witness: two such sequences, met in different orders, are both hashed.
C9_Witness ==
    /\ ~cfg.ignore_repetition
    /\ \E p \in SequencePairs :
           /\ CountSet(p[1]) = CountSet(p[2])
           /\ elems[p[1]] # elems[p[2]]
           /\ Len(elems[p[1]]) > 1
           /\ canon[p[1]] = canon[p[2]]

\* C10: the ancestor set of every _hash call holds the identity of every
\* value whose canonicalization is open on the path, so no identity is
\* entered while an evaluation of it is still open.
C10_AncestorsCoverOpenCalls ==
    pc = "run" =>
        /\ \A i \in 1..Len(stack) : \A j \in 1..i :
               stack[j].obj \in stack[i].parents
        /\ CallNext => \A j \in 1..Len(stack) : stack[j].obj \in CallParents
        /\ \A i, j \in 1..Len(stack) : stack[i].obj = stack[j].obj => i = j

====
